---- MODULE Spec2Model ----
(***************************************************************************)
(* PWM output engine of the LEDTouchTable pixel firmware (src/src/pwm.c).  *)
(*                                                                         *)
(* The driver's functions are modelled statement by statement.  Two        *)
(* execution contexts exist: the main flow and one interrupt handler that  *)
(* the hardware may start between any two statements of the main flow      *)
(* while the global interrupt flag (SREG.I) is set.  Registers are sets of *)
(* the bit names that are set in them; 16-bit registers are numbers.       *)
(***************************************************************************)
EXTENDS Integers, Sequences, FiniteSets, TLC

(* Number of distinct non-black colors callers pass to pwm_set_color_rgb; *)
(* the third has three different components.                             *)
NColors == 3

UINT16_MAX == 65535

(* Most clock cycles the statements between the two counter starts take. *)
MaxCycles == 2

(* pwm.c:55-78, the table in program memory; pwm_table[i+1] is C's       *)
(* pwm_table[i].                                                         *)
pwm_table == <<
    0, 1, 1, 1, 1, 1, 1, 1, 1, 2, 2, 2, 2, 2, 2, 2, 2, 2, 2, 2, 2, 3,
    3, 3, 3, 3, 3, 3, 4, 4, 4, 4, 4, 4, 5, 5, 5, 5, 5, 6, 6, 6, 6, 7,
    7, 7, 8, 8, 8, 9, 9, 10, 10, 10, 11, 11, 12, 12, 13, 13, 14, 15,
    15, 16, 17, 17, 18, 19, 20, 21, 22, 23, 24, 25, 26, 27, 28, 29,
    31, 32, 33, 35, 36, 38, 40, 41, 43, 45, 47, 49, 52, 54, 56, 59,
    61, 64, 67, 70, 73, 76, 79, 83, 87, 91, 95, 99, 103, 108, 112,
    117, 123, 128, 134, 140, 146, 152, 159, 166, 173, 181, 189, 197,
    206, 215, 225, 235, 245, 256, 267, 279, 292, 304, 318, 332, 347,
    362, 378, 395, 412, 431, 450, 470, 490, 512, 535, 558, 583, 609,
    636, 664, 693, 724, 756, 790, 825, 861, 899, 939, 981, 1024, 1069,
    1117, 1166, 1218, 1272, 1328, 1387, 1448, 1512, 1579, 1649, 1722,
    1798, 1878, 1961, 2048, 2139, 2233, 2332, 2435, 2543, 2656, 2773,
    2896, 3025, 3158, 3298, 3444, 3597, 3756, 3922, 4096, 4277, 4467,
    4664, 4871, 5087, 5312, 5547, 5793, 6049, 6317, 6596, 6889, 7194,
    7512, 7845, 8192, 8555, 8933, 9329, 9742, 10173, 10624, 11094,
    11585, 12098, 12634, 13193, 13777, 14387, 15024, 15689, 16384,
    17109, 17867, 18658, 19484, 20346, 21247, 22188, 23170, 24196,
    25267, 26386, 27554, 28774, 30048, 31378, 32768, 34218, 35733,
    37315, 38967, 40693, 42494, 44376, 46340, 48392, 50534, 52772,
    55108, 57548, 60096, 62757, 65535
>>

(* avr/pgmspace.h pgm_read_byte, had it been used instead of pgm_read_word *)
pgm_read_byte(level) == pwm_table[level + 1] % 256

(* pwm.c:256-258, pgm_read_word(&(pwm_table[level])) *)
value_at(level) == pwm_table[level + 1]

(* color.h:38-55, the fields of color_rgb_t *)
Fields == {"red", "green", "blue"}

RGB(r, g, b) == [red |-> r, green |-> g, blue |-> b]

(* pwm.c:90, the initializer {0, 0, 0} *)
Black == RGB(0, 0, 0)

(* The colors callers pass: the two of the documented scenarios first. *)
Palette(i) ==
    CASE i = 1 -> RGB(255, 0, 0)
      [] i = 2 -> RGB(128, 128, 128)
      [] OTHER -> RGB((37 * i) % 256, (91 * i + 5) % 256, (173 * i + 11) % 256)

Colors == {Palette(i) : i \in 1..NColors}

(* Bit names of the registers pwm.c writes. *)
COM1 == {"COM1A1", "COM1A0", "COM1B1", "COM1B0"}
COM2 == {"COM2A1", "COM2A0"}
LedPins == {"PA6", "PA5", "PA4"}

Ctx == {"main", "isr"}

VARIABLES
    pwm_color_rgb,  \* pwm.c:90
    OCR1A, OCR1B, OCR2A,          \* compare registers (red, green, blue)
    ICR1, ICR2,                   \* top values
    TCCR1A, TCCR1B, TCCR2A, TCCR2B,
    PORTA, DDRA,
    TOCPMSA0, TOCPMSA1, TOCPMCOE,
    lead,           \* clock cycles counter 1 has counted more than counter 2
    SREG_I,         \* global interrupt enable flag of SREG
    frame,          \* per context: program counter, argument, locals
    obs,            \* what the running interrupt handler has read
    state,          \* driver state of the design: Uninitialized/Disabled/Enabled
    last,           \* the operation completed most recently
    before,         \* the operation completed before it, kept for the pairs
                    \* set_color;get_color, disable;disable, enable;disable,
                    \* enable;enable
    committed,      \* compare triple of the last completed update
    snap,           \* driver state at the return of the first disable, or the
                    \* first enable, of a run of them
    touched         \* whether pwm_set_color_rgb has been called since reset

compare == <<OCR1A, OCR1B, OCR2A>>
routing == <<TCCR1A, TCCR2A>>
config  == <<ICR1, ICR2, TCCR1B, TCCR2B, DDRA, TOCPMSA0, TOCPMSA1, TOCPMCOE, lead>>
hw      == <<compare, routing, config, PORTA>>
ghost   == <<state, last, before, committed, snap, touched>>
vars    == <<pwm_color_rgb, hw, SREG_I, frame, obs, ghost>>

(* Everything a caller or the hardware can tell apart. *)
DriverState ==
    [color |-> pwm_color_rgb, ocr |-> compare,
     tccr1a |-> TCCR1A, tccr1b |-> TCCR1B, tccr2a |-> TCCR2A, tccr2b |-> TCCR2B,
     icr |-> <<ICR1, ICR2>>, porta |-> PORTA, ddra |-> DDRA,
     tocpm |-> <<TOCPMSA0, TOCPMSA1, TOCPMCOE>>, sreg_i |-> SREG_I]

NoSnap == [color |-> Black]
NoObs == [seen |-> FALSE]

(* A context that executes no driver function. *)
Home(c) == IF c = "isr" THEN "handler" ELSE "idle"

Rest(c) ==
    [pc |-> Home(c), color |-> Black, pending |-> {},
     red_value |-> 0, green_value |-> 0, blue_value |-> 0,
     tmp |-> FALSE, entry |-> FALSE, ret |-> Black]

Op(name, color) == [op |-> name, color |-> color]

Init ==
    /\ pwm_color_rgb = Black
    /\ OCR1A = 0 /\ OCR1B = 0 /\ OCR2A = 0
    /\ ICR1 = 0 /\ ICR2 = 0
    /\ TCCR1A = {} /\ TCCR1B = {} /\ TCCR2A = {} /\ TCCR2B = {}
    /\ PORTA = {} /\ DDRA = {}
    /\ TOCPMSA0 = {} /\ TOCPMSA1 = {} /\ TOCPMCOE = {}
    /\ lead = 0
    /\ SREG_I = FALSE
    /\ frame = [c \in Ctx |-> IF c = "isr" THEN [Rest(c) EXCEPT !.pc = "none"]
                                            ELSE Rest(c)]
    /\ obs = NoObs
    /\ state = "Uninitialized"
    /\ last = Op("reset", Black)
    /\ before = Op("none", Black)
    /\ committed = <<0, 0, 0>>
    /\ snap = NoSnap
    /\ touched = FALSE

(* The context the processor executes: the handler, once entered, runs to *)
(* its return before the main flow continues.                             *)
Running == IF frame["isr"].pc # "none" THEN "isr" ELSE "main"

At(c, label) == Running = c /\ frame[c].pc = label

Goto(c, label) == frame' = [frame EXCEPT ![c].pc = label]

(* A function is entered: the argument is bound, the locals are fresh. *)
Enter(c, label, color) ==
    frame' = [frame EXCEPT ![c] = [Rest(c) EXCEPT !.pc = label, !.color = color,
                                                   !.entry = SREG_I]]

(* The pair of completed operations the history keeps. *)
Keeps(old, new) ==
    \/ old.op = "set_color" /\ new.op = "get_color"
    \/ old.op = "disable" /\ new.op = "disable"
    \/ old.op = "enable" /\ new.op = "disable"
    \/ old.op = "enable" /\ new.op = "enable"

Log(new) ==
    /\ last' = new
    /\ before' = IF Keeps(last, new) THEN last ELSE Op("none", Black)

(* A function returns to its caller. *)
Return(c) == frame' = [frame EXCEPT ![c] = [Rest(c) EXCEPT !.ret = frame[c].ret]]

(***************************************************************************)
(* The guarded section, pwm.c:155-157 and 167-168 (also 188-190, 199-200,  *)
(* 220-222, 229-230).                                                      *)
(***************************************************************************)

(* a guard whose cli() was forgotten leaves the flag as it is *)
cli_forgotten == SREG_I

(* cli(): the flag after the instruction *)
cli == FALSE

(* sei() in place of SREG = tmp *)
RestoreAsSei(tmp) == TRUE

(* SREG = tmp: the flag after the assignment *)
RestoreSREG(tmp) == tmp

SaveSREG(c, next) ==
    /\ frame' = [frame EXCEPT ![c].tmp = SREG_I, ![c].pc = next]
    /\ UNCHANGED <<pwm_color_rgb, hw, SREG_I, obs, ghost>>

Cli(c, next) ==
    /\ SREG_I' = cli
    /\ Goto(c, next)
    /\ UNCHANGED <<pwm_color_rgb, hw, obs, ghost>>

(***************************************************************************)
(* pwm_init, pwm.c:107-139                                                 *)
(***************************************************************************)
Call_init(c) ==
    /\ c = "main" /\ At(c, Home(c))
    /\ state = "Uninitialized"
    /\ ~SREG_I                       \* pwm.c:103-105
    /\ Enter(c, "init_porta", Black)
    /\ UNCHANGED <<pwm_color_rgb, hw, SREG_I, obs, ghost>>

init_porta(c) ==                     \* pwm.c:111
    /\ At(c, "init_porta")
    /\ PORTA' = PORTA \cup LedPins
    /\ Goto(c, "init_ddra")
    /\ UNCHANGED <<pwm_color_rgb, compare, routing, config, SREG_I, obs, ghost>>

init_ddra(c) ==                      \* pwm.c:114
    /\ At(c, "init_ddra")
    /\ DDRA' = DDRA \cup LedPins
    /\ Goto(c, "init_ocr")
    /\ UNCHANGED <<pwm_color_rgb, compare, routing, PORTA, SREG_I, obs, ghost,
                   ICR1, ICR2, TCCR1B, TCCR2B, TOCPMSA0, TOCPMSA1, TOCPMCOE, lead>>

(* an init that leaves the compare registers as they are *)
CompareKept == compare

(* pwm.c:117-119: the values init writes to OCR1A, OCR1B, OCR2A *)
ResetCompare == <<0, 0, 0>>

init_ocr(c) ==                       \* pwm.c:117-119
    /\ At(c, "init_ocr")
    /\ OCR1A' = ResetCompare[1] /\ OCR1B' = ResetCompare[2] /\ OCR2A' = ResetCompare[3]
    /\ committed' = <<OCR1A', OCR1B', OCR2A'>>
    /\ Goto(c, "init_tocc")
    /\ UNCHANGED <<pwm_color_rgb, routing, config, PORTA, SREG_I, obs,
                   state, last, before, snap, touched>>

init_tocc(c) ==                      \* pwm.c:122-126
    /\ At(c, "init_tocc")
    /\ TOCPMSA0' = {"TOCC3S1"}
    /\ TOCPMSA1' = {"TOCC4S0", "TOCC5S0"}
    /\ TOCPMCOE' = {"TOCC5OE", "TOCC4OE", "TOCC3OE"}
    /\ Goto(c, "init_timer1")
    /\ UNCHANGED <<pwm_color_rgb, compare, routing, PORTA, SREG_I, obs, ghost,
                   ICR1, ICR2, TCCR1B, TCCR2B, DDRA, lead>>

(* a pwm_init that also connects the compare outputs of counter 1 *)
InitConnects == {"WGM11"} \cup COM1

(* pwm.c:132: the bits pwm_init assigns to TCCR1A *)
InitTCCR1A == {"WGM11"}

init_timer1(c) ==                    \* pwm.c:131-133
    /\ At(c, "init_timer1")
    /\ ICR1' = UINT16_MAX
    /\ TCCR1A' = InitTCCR1A
    /\ TCCR1B' = {"WGM13", "CS10"}
    /\ Goto(c, "init_timer2")
    /\ UNCHANGED <<pwm_color_rgb, compare, TCCR2A, PORTA, SREG_I, obs, ghost,
                   ICR2, TCCR2B, DDRA, TOCPMSA0, TOCPMSA1, TOCPMCOE, lead>>

(* One period of a phase correct counter: up to the top and down again. *)
Period == 2 * UINT16_MAX

(* pwm.c:133, 137: a counter counts the clock once its clock select bit is *)
(* set; the lead of counter 1 after n more clock cycles                    *)
Ahead(n) ==
    (lead + (IF "CS10" \in TCCR1B THEN n ELSE 0)
          + Period - (IF "CS20" \in TCCR2B THEN n ELSE 0)) % Period

init_timer2(c) ==                    \* pwm.c:135-139
    /\ At(c, "init_timer2")
    /\ \E n \in 1..MaxCycles : lead' = Ahead(n)
    /\ ICR2' = UINT16_MAX
    /\ TCCR2A' = {"WGM21"}
    /\ TCCR2B' = {"WGM23", "CS20"}
    /\ Return(c)
    /\ state' = "Disabled"
    /\ Log(Op("init", Black))
    /\ snap' = NoSnap
    /\ UNCHANGED <<pwm_color_rgb, compare, TCCR1A, PORTA, SREG_I, obs, committed, touched,
                   ICR1, TCCR1B, DDRA, TOCPMSA0, TOCPMSA1, TOCPMCOE>>

(***************************************************************************)
(* pwm_enable, pwm.c:152-170                                               *)
(***************************************************************************)
(* reg = bits in place of reg |= bits *)
AssignBits(reg, bits) == bits

(* reg |= bits *)
SetBits(reg, bits) == reg \cup bits

Call_enable(c) ==
    /\ At(c, Home(c))
    /\ state # "Uninitialized"
    /\ Enter(c, "enable_save", Black)
    /\ UNCHANGED <<pwm_color_rgb, hw, SREG_I, obs, ghost>>

enable_save(c) == At(c, "enable_save") /\ SaveSREG(c, "enable_cli")   \* pwm.c:156

enable_cli(c) == At(c, "enable_cli") /\ Cli(c, "enable_porta")        \* pwm.c:157

enable_porta(c) ==                   \* pwm.c:160
    /\ At(c, "enable_porta")
    /\ PORTA' = PORTA \cup LedPins
    /\ Goto(c, "enable_tccr1a")
    /\ UNCHANGED <<pwm_color_rgb, compare, routing, config, SREG_I, obs, ghost>>

enable_tccr1a(c) ==                  \* pwm.c:164
    /\ At(c, "enable_tccr1a")
    /\ TCCR1A' = SetBits(TCCR1A, COM1)
    /\ Goto(c, "enable_tccr2a")
    /\ UNCHANGED <<pwm_color_rgb, compare, TCCR2A, config, PORTA, SREG_I, obs, ghost>>

enable_tccr2a(c) ==                  \* pwm.c:165
    /\ At(c, "enable_tccr2a")
    /\ TCCR2A' = SetBits(TCCR2A, COM2)
    /\ Goto(c, "enable_restore")
    /\ UNCHANGED <<pwm_color_rgb, compare, TCCR1A, config, PORTA, SREG_I, obs, ghost>>

enable_restore(c) ==                 \* pwm.c:168-170
    /\ At(c, "enable_restore")
    /\ SREG_I' = RestoreSREG(frame[c].tmp)
    /\ Return(c)
    /\ state' = "Enabled"
    /\ Log(Op("enable", Black))
    /\ UNCHANGED <<pwm_color_rgb, hw, obs, committed, touched>>
    /\ snap' = IF last.op = "enable" THEN snap ELSE DriverState'

(***************************************************************************)
(* pwm_disable, pwm.c:185-202                                              *)
(***************************************************************************)

(* TCCR1A ^= ... in place of TCCR1A &= ~(...) *)
ToggleBits(reg, bits) == (reg \ bits) \cup (bits \ reg)

(* reg &= (bits), the complement forgotten *)
MaskBits(reg, bits) == reg \cap bits

(* reg &= ~(bits) *)
ClearBits(reg, bits) == reg \ bits

(* the second counter left out of the update *)
KeepTCCR2A(reg) == reg

(* pwm.c:194 *)
DisableTCCR2A(reg) == ClearBits(reg, COM2)

Call_disable(c) ==
    /\ At(c, Home(c))
    /\ state # "Uninitialized"
    /\ Enter(c, "disable_save", Black)
    /\ UNCHANGED <<pwm_color_rgb, hw, SREG_I, obs, ghost>>

disable_save(c) == At(c, "disable_save") /\ SaveSREG(c, "disable_cli")  \* pwm.c:189

disable_cli(c) == At(c, "disable_cli") /\ Cli(c, "disable_tccr1a")      \* pwm.c:190

disable_tccr1a(c) ==                 \* pwm.c:193
    /\ At(c, "disable_tccr1a")
    /\ TCCR1A' = ClearBits(TCCR1A, COM1)
    /\ Goto(c, "disable_tccr2a")
    /\ UNCHANGED <<pwm_color_rgb, compare, TCCR2A, config, PORTA, SREG_I, obs, ghost>>

disable_tccr2a(c) ==                 \* pwm.c:194
    /\ At(c, "disable_tccr2a")
    /\ TCCR2A' = DisableTCCR2A(TCCR2A)
    /\ Goto(c, "disable_porta")
    /\ UNCHANGED <<pwm_color_rgb, compare, TCCR1A, config, PORTA, SREG_I, obs, ghost>>

disable_porta(c) ==                  \* pwm.c:197
    /\ At(c, "disable_porta")
    /\ PORTA' = PORTA \cup LedPins
    /\ Goto(c, "disable_restore")
    /\ UNCHANGED <<pwm_color_rgb, compare, routing, config, SREG_I, obs, ghost>>

disable_restore(c) ==                \* pwm.c:200-202
    /\ At(c, "disable_restore")
    /\ SREG_I' = RestoreSREG(frame[c].tmp)
    /\ Return(c)
    /\ state' = "Disabled"
    /\ Log(Op("disable", Black))
    /\ UNCHANGED <<pwm_color_rgb, hw, obs, committed, touched>>
    /\ snap' = IF last.op = "disable" THEN snap ELSE DriverState'

(***************************************************************************)
(* pwm_set_color_rgb, pwm.c:249-263, with pwm_set_compare_values,          *)
(* pwm.c:217-232, which it calls.                                          *)
(***************************************************************************)

(* a struct copy that leaves the last field out *)
CopyWithoutBlue == {"red", "green"}

(* pwm.c:253: the fields the struct assignment stores, one byte each on *)
(* the 8-bit target, in an order the compiler chooses                   *)
CopiedFields == Fields

(* the green and blue arguments exchanged *)
SwappedArgs(red, green, blue) == <<red, blue, green>>

(* pwm.c:225-227: the values for OCR1A, OCR1B, OCR2A *)
CompareArgs(red, green, blue) == <<red, green, blue>>

Call_set_color(c, color) ==
    /\ At(c, Home(c))
    /\ frame' = [frame EXCEPT ![c] = [Rest(c) EXCEPT !.pc = "set_color_copy",
                     !.color = color, !.entry = SREG_I, !.pending = CopiedFields]]
    /\ touched' = TRUE
    /\ UNCHANGED <<pwm_color_rgb, hw, SREG_I, obs, state, last, before, committed, snap>>

set_color_copy(c) ==                 \* pwm.c:253
    /\ At(c, "set_color_copy")
    /\ \E f \in frame[c].pending :
         /\ pwm_color_rgb' = [pwm_color_rgb EXCEPT ![f] = frame[c].color[f]]
         /\ frame' = [frame EXCEPT ![c].pending = @ \ {f},
                        ![c].pc = IF frame[c].pending = {f} THEN "set_color_lookup"
                                  ELSE "set_color_copy"]
    /\ UNCHANGED <<hw, SREG_I, obs, ghost>>

set_color_lookup(c) ==               \* pwm.c:256-258
    /\ At(c, "set_color_lookup")
    /\ frame' = [frame EXCEPT ![c].red_value = value_at(frame[c].color.red),
                              ![c].green_value = value_at(frame[c].color.green),
                              ![c].blue_value = value_at(frame[c].color.blue),
                              ![c].pc = "compare_save"]
    /\ UNCHANGED <<pwm_color_rgb, hw, SREG_I, obs, ghost>>

compare_save(c) == At(c, "compare_save") /\ SaveSREG(c, "compare_cli")   \* pwm.c:221

compare_cli(c) == At(c, "compare_cli") /\ Cli(c, "compare_ocr1a")        \* pwm.c:222

Args(c) == CompareArgs(frame[c].red_value, frame[c].green_value, frame[c].blue_value)

compare_ocr1a(c) ==                  \* pwm.c:225
    /\ At(c, "compare_ocr1a")
    /\ OCR1A' = Args(c)[1]
    /\ Goto(c, "compare_ocr1b")
    /\ UNCHANGED <<pwm_color_rgb, OCR1B, OCR2A, routing, config, PORTA, SREG_I, obs, ghost>>

compare_ocr1b(c) ==                  \* pwm.c:226
    /\ At(c, "compare_ocr1b")
    /\ OCR1B' = Args(c)[2]
    /\ Goto(c, "compare_ocr2a")
    /\ UNCHANGED <<pwm_color_rgb, OCR1A, OCR2A, routing, config, PORTA, SREG_I, obs, ghost>>

compare_ocr2a(c) ==                  \* pwm.c:227
    /\ At(c, "compare_ocr2a")
    /\ OCR2A' = Args(c)[3]
    /\ Goto(c, "compare_restore")
    /\ UNCHANGED <<pwm_color_rgb, OCR1A, OCR1B, routing, config, PORTA, SREG_I, obs, ghost>>

compare_restore(c) ==                \* pwm.c:230-232 and 263
    /\ At(c, "compare_restore")
    /\ SREG_I' = RestoreSREG(frame[c].tmp)
    /\ Return(c)
    /\ Log(Op("set_color", frame[c].color))
    /\ committed' = compare
    /\ snap' = NoSnap
    /\ UNCHANGED <<pwm_color_rgb, hw, obs, state, touched>>

(***************************************************************************)
(* pwm_get_color_rgb, pwm.c:272-277: the caller gets a pointer to          *)
(* pwm_color_rgb and reads the three bytes through it.                     *)
(***************************************************************************)
Call_get_color(c) ==
    /\ At(c, Home(c))
    /\ frame' = [frame EXCEPT ![c] = [Rest(c) EXCEPT !.pc = "get_color_read",
                     !.entry = SREG_I, !.pending = Fields]]
    /\ UNCHANGED <<pwm_color_rgb, hw, SREG_I, obs, ghost>>

get_color_read(c) ==                 \* pwm.c:275
    /\ At(c, "get_color_read")
    /\ \E f \in frame[c].pending :
         IF frame[c].pending = {f}
         THEN /\ frame' = [frame EXCEPT ![c] = [Rest(c) EXCEPT
                              !.ret = [frame[c].ret EXCEPT ![f] = pwm_color_rgb[f]]]]
              /\ Log(Op("get_color", Black))
              /\ snap' = NoSnap
              /\ UNCHANGED <<state, committed, touched>>
         ELSE /\ frame' = [frame EXCEPT ![c].pending = @ \ {f},
                                        ![c].ret[f] = pwm_color_rgb[f]]
              /\ UNCHANGED ghost
    /\ UNCHANGED <<pwm_color_rgb, hw, SREG_I, obs>>

(***************************************************************************)
(* The caller and the hardware around the driver.                          *)
(***************************************************************************)

(* The main flow enables interrupts (sei) or disables them (cli). *)
Sei ==
    /\ At("main", "idle") /\ ~SREG_I
    /\ SREG_I' = TRUE
    /\ Log(Op("sei", Black)) /\ snap' = NoSnap
    /\ UNCHANGED <<pwm_color_rgb, hw, frame, obs, state, committed, touched>>

MainCli ==
    /\ At("main", "idle") /\ SREG_I
    /\ SREG_I' = FALSE
    /\ Log(Op("cli", Black)) /\ snap' = NoSnap
    /\ UNCHANGED <<pwm_color_rgb, hw, frame, obs, state, committed, touched>>

(* An interrupt is taken between two statements of the main flow: the *)
(* hardware clears the flag and enters the handler.                   *)
Interrupt ==
    /\ SREG_I /\ frame["isr"].pc = "none"
    /\ SREG_I' = FALSE
    /\ frame' = [frame EXCEPT !["isr"] = Rest("isr")]
    /\ UNCHANGED <<pwm_color_rgb, hw, obs, ghost>>

(* The handler reads the compare registers, the routing bits of both *)
(* counters and, through pwm_get_color_rgb, the stored color.        *)
Observe ==
    /\ At("isr", "handler")
    /\ obs' = [seen |-> TRUE, ocr |-> compare, expected |-> committed,
               com1 |-> TCCR1A \cap COM1, com2 |-> TCCR2A \cap COM2,
               color |-> pwm_color_rgb]
    /\ UNCHANGED <<pwm_color_rgb, hw, SREG_I, frame, ghost>>

(* reti: the handler returns and the hardware sets the flag again. *)
Reti ==
    /\ At("isr", "handler")
    /\ SREG_I' = TRUE
    /\ frame' = [frame EXCEPT !["isr"] = [Rest("isr") EXCEPT !.pc = "none"]]
    /\ obs' = NoObs
    /\ UNCHANGED <<pwm_color_rgb, hw, ghost>>

(* One statement of a driver function that context c executes. *)
Step(c) ==
    \/ init_porta(c) \/ init_ddra(c) \/ init_ocr(c) \/ init_tocc(c)
    \/ init_timer1(c) \/ init_timer2(c)
    \/ enable_save(c) \/ enable_cli(c) \/ enable_porta(c)
    \/ enable_tccr1a(c) \/ enable_tccr2a(c) \/ enable_restore(c)
    \/ disable_save(c) \/ disable_cli(c) \/ disable_tccr1a(c)
    \/ disable_tccr2a(c) \/ disable_porta(c) \/ disable_restore(c)
    \/ set_color_copy(c) \/ set_color_lookup(c)
    \/ compare_save(c) \/ compare_cli(c) \/ compare_ocr1a(c)
    \/ compare_ocr1b(c) \/ compare_ocr2a(c) \/ compare_restore(c)
    \/ get_color_read(c)

(* Context c calls a driver function. *)
Call(c) ==
    \/ Call_init(c) \/ Call_enable(c) \/ Call_disable(c)
    \/ \E color \in Colors : Call_set_color(c, color)
    \/ Call_get_color(c)

(* The handler only reads. *)
Next ==
    \/ Call("main")
    \/ Step("main")
    \/ Sei \/ MainCli
    \/ Interrupt \/ Observe \/ Reti

Spec == Init /\ [][Next]_vars

(* The handler calls pwm_set_color_rgb too, with the first color. *)
NextReentrant ==
    \/ Next
    \/ Call_set_color("isr", Palette(1))
    \/ Step("isr")

SpecReentrant == Init /\ [][NextReentrant]_vars

(***************************************************************************)
(* Vocabulary of the properties.                                           *)
(***************************************************************************)

(* The compare values the table holds for a color, pwm.c:55-78. *)
TableTriple(color) ==
    <<pwm_table[color.red + 1], pwm_table[color.green + 1], pwm_table[color.blue + 1]>>

(* pwm.c:192-194: OCnA/OCnB disconnected on both counters *)
Disconnected == TCCR1A \cap COM1 = {} /\ TCCR2A \cap COM2 = {}

(* pwm.c:162-165: OCnA/OCnB connected on both counters *)
Connected == COM1 \subseteq TCCR1A /\ COM2 \subseteq TCCR2A

(* pwm.c:110-111: the LEDs are active low, a set port bit is the inactive level *)
PinsInactive == LedPins \subseteq PORTA

MainIdle == At("main", "idle")

(* A context is between the first and the last statement of a routing update. *)
UpdatingRouting ==
    \E c \in Ctx : frame[c].pc \in
        {"enable_porta", "enable_tccr1a", "enable_tccr2a", "enable_restore",
         "disable_tccr1a", "disable_tccr2a", "disable_porta", "disable_restore"}

(***************************************************************************)
(* C1: the compare triple an interrupt handler reads is always the whole   *)
(* triple of one completed update (the last pwm_set_color_rgb call that    *)
(* returned, or the zeros of pwm_init or reset), never a mix of two.       *)
(***************************************************************************)
C1_AtomicColorUpdate ==
    obs.seen =>
        /\ obs.ocr = obs.expected
        /\ obs.ocr \in {TableTriple(color) : color \in Colors \cup {Black}}

(* the handler preempts a second set_color call and reads the first's triple *)
C1_Witness ==
    /\ obs.seen
    /\ obs.ocr = TableTriple(Palette(2))
    /\ frame["main"].pc = "compare_cli"
    /\ frame["main"].color = Palette(1)

(***************************************************************************)
(* C2: when pwm_set_color_rgb(C) has returned, OCR1A, OCR1B and OCR2A hold *)
(* the table entries of C's red, green and blue; (255,0,0) gives           *)
(* (65535,0,0) and (128,128,128) gives the entry of 128 three times.       *)
(***************************************************************************)
C2_SetColorApplies ==
    (last.op = "set_color" /\ MainIdle) =>
        /\ OCR1A = pwm_table[last.color.red + 1]
        /\ OCR1B = pwm_table[last.color.green + 1]
        /\ OCR2A = pwm_table[last.color.blue + 1]
        /\ last.color = RGB(255, 0, 0) => compare = <<65535, 0, 0>>
        /\ last.color = RGB(128, 128, 128) =>
               compare = <<pwm_table[129], pwm_table[129], pwm_table[129]>>

C2_Witness ==
    /\ last = Op("set_color", RGB(255, 0, 0)) /\ MainIdle
    /\ compare = <<65535, 0, 0>>
    /\ state = "Enabled"

(***************************************************************************)
(* C3: pwm_get_color_rgb right after pwm_set_color_rgb(C) yields C, and    *)
(* reading the color changes neither the stored color, nor a register,     *)
(* nor the interrupt flag.                                                 *)
(***************************************************************************)
C3_RoundTrip ==
    /\ []((last.op = "get_color" /\ before.op = "set_color" /\ MainIdle)
            => frame["main"].ret = before.color)
    /\ [][(frame["main"].pc = "get_color_read" /\ frame'["main"] # frame["main"])
            => UNCHANGED <<pwm_color_rgb, hw, SREG_I>>]_vars

C3_Witness ==
    /\ last.op = "get_color" /\ before = Op("set_color", Palette(2)) /\ MainIdle
    /\ frame["main"].ret = Palette(2)
    /\ state = "Enabled"

(***************************************************************************)
(* C4, as claimed: whenever pwm_init has just returned, the stored color   *)
(* is (0,0,0), the compare registers are 0, the outputs are disconnected   *)
(* and the pins inactive, whatever was called before.                      *)
(***************************************************************************)
C4_InitResetsAll ==
    (last.op = "init" /\ MainIdle) =>
        /\ pwm_color_rgb = Black
        /\ compare = <<0, 0, 0>>
        /\ Disconnected /\ PinsInactive /\ state = "Disabled"

(***************************************************************************)
(* C4, amended: whenever pwm_init has just returned, the compare registers *)
(* are 0, the outputs are disconnected and the pins inactive; the stored   *)
(* color is (0,0,0) if pwm_set_color_rgb was not called before pwm_init,   *)
(* and pwm_init never writes it.                                           *)
(***************************************************************************)
C4_InitResetsOutputs ==
    /\ []((last.op = "init" /\ MainIdle) =>
            /\ compare = <<0, 0, 0>>
            /\ Disconnected /\ PinsInactive /\ state = "Disabled"
            /\ ~touched => pwm_color_rgb = Black)
    /\ [][(frame["main"].pc \in {"init_porta", "init_ddra", "init_ocr", "init_tocc",
                                  "init_timer1", "init_timer2"})
            => pwm_color_rgb' = pwm_color_rgb]_vars

(* pwm_init has returned after a set_color call made before it *)
C4_Witness ==
    /\ last.op = "init" /\ MainIdle /\ touched
    /\ pwm_color_rgb = Palette(1)
    /\ compare = <<0, 0, 0>>

(***************************************************************************)
(* C5, as claimed: the color an interrupt handler reads through            *)
(* pwm_get_color_rgb is (0,0,0) or one color passed whole to               *)
(* pwm_set_color_rgb, never a mix of the components of two colors.         *)
(***************************************************************************)
C5_NoTornRead == obs.seen => obs.color \in Colors \cup {Black}

(***************************************************************************)
(* C6: whenever the driver is Initialized/Disabled (pwm_init or            *)
(* pwm_disable returned last) and no routing update is in progress, both   *)
(* counters' compare outputs are disconnected and the three pins are at    *)
(* the inactive level, whatever color is stored.                           *)
(***************************************************************************)
C6_DisabledIsDark ==
    (state = "Disabled" /\ ~UpdatingRouting) => (Disconnected /\ PinsInactive)

(* enable() then disable() with a color stored *)
C6_Witness ==
    /\ last.op = "disable" /\ before.op = "enable" /\ MainIdle
    /\ state = "Disabled"
    /\ pwm_color_rgb = Palette(1) /\ compare = TableTriple(Palette(1))

(***************************************************************************)
(* C7: an interrupt handler sees the compare outputs of counter 1 and of   *)
(* counter 2 either both connected or both disconnected.                   *)
(***************************************************************************)
C7_RoutingAtomic ==
    obs.seen => \/ obs.com1 = COM1 /\ obs.com2 = COM2
                \/ obs.com1 = {} /\ obs.com2 = {}

(* the handler preempts a disable() call before its guard and sees both connected *)
C7_Witness ==
    /\ obs.seen /\ obs.com1 = COM1 /\ obs.com2 = COM2
    /\ frame["main"].pc = "disable_cli"

(***************************************************************************)
(* C8: the table has 256 entries in 0..65535, starts at 0, ends at 65535   *)
(* and never decreases; every value pwm_set_color_rgb has looked up is the *)
(* table's entry for the component it was looked up for.                   *)
(***************************************************************************)
C8_TableShape ==
    /\ Len(pwm_table) = 256
    /\ \A L \in 0..255 : value_at(L) \in 0..UINT16_MAX
    /\ value_at(0) = 0
    /\ value_at(255) = UINT16_MAX
    /\ \A L \in 0..254 : value_at(L) <= value_at(L + 1)
    /\ \A c \in Ctx :
         frame[c].pc \in {"compare_save", "compare_cli", "compare_ocr1a",
                          "compare_ocr1b", "compare_ocr2a", "compare_restore"}
         => <<frame[c].red_value, frame[c].green_value, frame[c].blue_value>>
              = TableTriple(frame[c].color)

C8_Witness ==
    /\ frame["main"].pc = "compare_save"
    /\ frame["main"].red_value = 65535 /\ frame["main"].green_value = 0

(***************************************************************************)
(* C9: after disable(); disable() the whole driver state (stored color,    *)
(* compare registers, routing, port, timer configuration, interrupt flag)  *)
(* is what it was after the first disable().                               *)
(***************************************************************************)
C9_DisableIdempotent ==
    (last.op = "disable" /\ before.op = "disable" /\ MainIdle) => DriverState = snap

C9_Witness ==
    /\ last.op = "disable" /\ before.op = "disable" /\ MainIdle
    /\ SREG_I /\ pwm_color_rgb = Palette(2) /\ DriverState = snap

(***************************************************************************)
(* C10: when enable(), disable() or set_color() returns, the global        *)
(* interrupt flag is what it was when the function was called.             *)
(***************************************************************************)
C10_GuardRestoresFlag ==
    [][\A c \in Ctx :
         (/\ frame[c].pc \in {"enable_restore", "disable_restore", "compare_restore"}
          /\ frame'[c].pc = Home(c))
         => SREG_I' = frame[c].entry]_vars

(* enable() was called with interrupts disabled and has returned with them disabled *)
C10_Witness ==
    /\ last.op = "enable" /\ MainIdle /\ ~SREG_I /\ state = "Enabled"

(* No driver function is in progress in any context. *)
Quiescent == MainIdle /\ frame["isr"].pc = "none"

(***************************************************************************)
(* C11, as claimed, at the quiescent points after pwm_init that follow the *)
(* return of a pwm_set_color_rgb call: the compare registers hold the      *)
(* table entries of the stored color, also when an interrupt handler       *)
(* called pwm_set_color_rgb while the main flow was inside it.             *)
(***************************************************************************)
C11_ColorTracksHardware ==
    (Quiescent /\ state # "Uninitialized" /\ last.op = "set_color")
        => compare = TableTriple(pwm_color_rgb)

(* The statement the processor executes next. *)
Exec == frame[Running].pc

(* A statement of the running driver function is executed in this step. *)
Stepped == frame'[Running] # frame[Running] /\ Exec \notin {"idle", "handler"}

SetColorLabels ==
    {"set_color_copy", "set_color_lookup", "compare_save", "compare_cli",
     "compare_ocr1a", "compare_ocr1b", "compare_ocr2a", "compare_restore"}

EnableLabels ==
    {"enable_save", "enable_cli", "enable_porta", "enable_tccr1a", "enable_tccr2a",
     "enable_restore"}

DisableLabels ==
    {"disable_save", "disable_cli", "disable_tccr1a", "disable_tccr2a",
     "disable_porta", "disable_restore"}

(* pwm.c:164-165, 193-194: the compare output mode bits of both counters *)
RoutingBits == <<TCCR1A \cap COM1, TCCR2A \cap COM2>>

(***************************************************************************)
(* C12: no statement of set_color changes the routing bits or the port;    *)
(* no statement of enable or disable changes the stored color or a compare *)
(* register; the routing bits are clear when init has returned and change  *)
(* only in a statement of enable or disable; the stored color changes only *)
(* in a statement of set_color.                                            *)
(***************************************************************************)
C12_Separation ==
    /\ []((last.op = "init" /\ MainIdle) => RoutingBits = <<{}, {}>>)
    /\ [][((Stepped /\ Exec \in SetColorLabels)
               => UNCHANGED <<RoutingBits, PORTA, DDRA, TOCPMCOE>>)
           /\ ((Stepped /\ Exec \in EnableLabels \cup DisableLabels)
               => UNCHANGED <<pwm_color_rgb, compare>>)
           /\ (RoutingBits' # RoutingBits
               => Exec \in {"enable_tccr1a", "enable_tccr2a",
                            "disable_tccr1a", "disable_tccr2a"})
           /\ (pwm_color_rgb' # pwm_color_rgb => Exec = "set_color_copy")]_vars

(* set_color has returned while the outputs are connected, and they still are *)
C12_Witness ==
    /\ last = Op("set_color", Palette(3)) /\ MainIdle
    /\ state = "Enabled" /\ RoutingBits = <<COM1, COM2>>
    /\ compare = TableTriple(Palette(3))

(* pwm.c:129-137: mode 10 (phase correct, top ICRn), prescaler 1, top 65535, *)
(* on both counters                                                          *)
TimerConfigAsInit ==
    /\ TCCR1A \ COM1 = {"WGM11"} /\ TCCR1B = {"WGM13", "CS10"} /\ ICR1 = UINT16_MAX
    /\ TCCR2A \ COM2 = {"WGM21"} /\ TCCR2B = {"WGM23", "CS20"} /\ ICR2 = UINT16_MAX

(***************************************************************************)
(* C13: once pwm_init has returned, the waveform mode bits, the clock      *)
(* select bits and the top value 65535 of both counters stay as pwm_init   *)
(* set them; a statement of enable or disable changes nothing but the      *)
(* compare output mode bits and the port latch.                            *)
(***************************************************************************)
C13_TimersKeepRunning ==
    /\ [](state # "Uninitialized" => TimerConfigAsInit)
    /\ [][(Stepped /\ Exec \in EnableLabels \cup DisableLabels)
            => UNCHANGED <<TCCR1A \ COM1, TCCR2A \ COM2, config, compare,
                           pwm_color_rgb>>]_vars

(* enabled after a disable, with the counters configured as by pwm_init *)
C13_Witness ==
    /\ state = "Enabled" /\ last.op = "enable" /\ MainIdle /\ SREG_I
    /\ TCCR1A = {"WGM11"} \cup COM1 /\ TCCR2A = {"WGM21"} \cup COM2
    /\ pwm_color_rgb = Palette(2)

(***************************************************************************)
(* C14, as claimed: once pwm_init has returned, both counters have the     *)
(* same mode, prescaler and top, and hold the same count and direction at  *)
(* every clock tick: neither is ahead of the other.                        *)
(***************************************************************************)
C14_Synchronized ==
    state # "Uninitialized" => (TimerConfigAsInit /\ lead = 0)

(* The state of the design's state machine, read off the registers. *)
DriverMode ==
    IF ~TimerConfigAsInit THEN "Uninitialized"
    ELSE IF Connected THEN "Enabled"
    ELSE IF Disconnected THEN "Disabled"
    ELSE "Mixed"

(***************************************************************************)
(* C15: when enable() has returned, both counters' compare outputs are     *)
(* connected; after enable(); enable() the whole driver state is what it   *)
(* was after the first enable(); outside a routing update the registers    *)
(* show the state the last of init, enable, disable led to, and the state  *)
(* changes only by init: Uninitialized -> Disabled, enable: Disabled or    *)
(* Enabled -> Enabled, disable: Disabled or Enabled -> Disabled.           *)
(***************************************************************************)
C15_EnableReasserts ==
    /\ []((last.op = "enable" /\ MainIdle) => (Connected /\ state = "Enabled"))
    /\ []((last.op = "enable" /\ before.op = "enable" /\ MainIdle)
            => DriverState = snap)
    /\ [](~UpdatingRouting => DriverMode = state)
    /\ [][state' # state =>
            \/ Exec = "init_timer2" /\ state = "Uninitialized" /\ state' = "Disabled"
            \/ Exec = "enable_restore" /\ state = "Disabled" /\ state' = "Enabled"
            \/ Exec = "disable_restore" /\ state = "Enabled" /\ state' = "Disabled"]_vars

(* enable() twice in a row, with a color stored *)
C15_Witness ==
    /\ last.op = "enable" /\ before.op = "enable" /\ MainIdle
    /\ Connected /\ DriverState = snap /\ pwm_color_rgb = Palette(1)

(* pwm.c:55: the values the 256 entries of the table take *)
TableEntries == {pwm_table[i] : i \in 1..Len(pwm_table)}

(***************************************************************************)
(* C16: once pwm_init has returned, each compare register holds an entry   *)
(* of the table and is at most the top value 65535 that pwm_init wrote to  *)
(* ICR1 and ICR2; every component pwm_set_color_rgb looks up indexes an    *)
(* entry of the 256 the table has.                                         *)
(***************************************************************************)
C16_CompareWithinTop ==
    /\ state # "Uninitialized" =>
          /\ ICR1 = 65535 /\ ICR2 = 65535
          /\ OCR1A \in TableEntries /\ OCR1A <= ICR1
          /\ OCR1B \in TableEntries /\ OCR1B <= ICR1
          /\ OCR2A \in TableEntries /\ OCR2A <= ICR2
    /\ \A c \in Ctx : \A f \in Fields :
          /\ frame[c].color[f] \in 0..255
          /\ frame[c].color[f] + 1 \in 1..Len(pwm_table)

(* the red compare register at the top value, the outputs connected *)
C16_Witness ==
    /\ state = "Enabled" /\ MainIdle /\ Connected
    /\ OCR1A = ICR1 /\ OCR1A = 65535 /\ OCR1B = 0 /\ OCR2A = 0

====
